---- MODULE Spec2Model ----
(***************************************************************************)
(* Model of the product catalogue API (src/API/api.py, src/API/models.py). *)
(*                                                                         *)
(* A string is a sequence of one-character tokens.  The accented letters   *)
(* of the name pattern are written with a trailing quote ("a'" is a with   *)
(* an acute accent) and the n with tilde as "n~"; "TAB" is the tabulator.  *)
(* A Decimal is an integer number of thousandths (2005 is 2.005).          *)
(***************************************************************************)
EXTENDS Integers, Sequences, FiniteSets, TLC

\* items, name_to_id: the two dicts of the repository _repo
\* uuid_count: how many values uuid4 has produced
\* resp: the response to the last request
\* val: the field validation under study, its input and its result
\* pend: the requests in flight, each with the position of its handler
VARIABLES items, name_to_id, uuid_count, resp, val, pend

vars == <<items, name_to_id, uuid_count, resp, val, pend>>

----------------------------------------------------------------------------
(* Bounds of the model.                                                    *)

\* number of records Spec can create
MaxIds == 2

\* number of records SpecList can create
MaxIdsList == 3

\* number of requests that can be in flight together
MaxPend == 2

\* the prices given to the price validation lie within Vecindad thousandths
\* of 0, of 2.000 and of the maximum
Vecindad == 12

----------------------------------------------------------------------------
(* Characters and the str methods the code uses.                           *)

LowerOf ==
    ("A" :> "a") @@ ("B" :> "b") @@ ("C" :> "c") @@ ("D" :> "d") @@
    ("F" :> "f") @@ ("R" :> "r") @@ ("U" :> "u") @@ ("T" :> "t") @@
    ("V" :> "v") @@ ("G" :> "g") @@ ("X" :> "x") @@
    ("A'" :> "a'") @@ ("E'" :> "e'") @@ ("N~" :> "n~")

BaseOf ==
    ("a'" :> "a") @@ ("e'" :> "e") @@ ("n~" :> "n") @@
    ("A'" :> "A") @@ ("E'" :> "E") @@ ("N~" :> "N")

LowerLetters ==
    {"a", "b", "c", "d", "e", "f", "g", "i", "l", "m", "n", "o", "p", "r",
     "s", "t", "u", "v", "x", "y", "z"}
Digits == {"0", "1", "2"}
AccentedInPattern == {"a'", "e'", "n~", "A'", "E'", "N~"}
Whitespace == {" ", "TAB"}

\* the first character class of _name_re
NameFirstClass ==
    LowerLetters \cup (DOMAIN LowerOf \ {"A'", "E'", "N~"}) \cup Digits
        \cup AccentedInPattern
\* the second character class of _name_re
NameRestClass == NameFirstClass \cup {" ", "-", "_", "."}

\* str.lower
lower(s) == [i \in 1..Len(s) |-> IF s[i] \in DOMAIN LowerOf THEN LowerOf[s[i]] ELSE s[i]]

\* _strip_accents: NFKD decomposition, combining marks dropped
strip_accents(s) == [i \in 1..Len(s) |-> IF s[i] \in DOMAIN BaseOf THEN BaseOf[s[i]] ELSE s[i]]

\* str.split(): the maximal runs of non-whitespace characters, the first run
\* and then those of the rest
RECURSIVE split(_)
split(s) ==
    IF \A i \in 1..Len(s) : s[i] \in Whitespace THEN <<>>
    ELSE LET first == CHOOSE i \in 1..Len(s) :
                         /\ s[i] \notin Whitespace
                         /\ \A j \in 1..(i - 1) : s[j] \in Whitespace
             last == CHOOSE i \in first..Len(s) :
                         /\ \A j \in first..i : s[j] \notin Whitespace
                         /\ i < Len(s) => s[i + 1] \in Whitespace
         IN  <<SubSeq(s, first, last)>> \o split(SubSeq(s, last + 1, Len(s)))

\* " ".join(words)
RECURSIVE join(_)
join(words) ==
    IF words = <<>> THEN <<>>
    ELSE IF Len(words) = 1 THEN Head(words)
    ELSE Head(words) \o <<" ">> \o join(Tail(words))

\* str.strip()
RECURSIVE lstrip(_)
lstrip(s) == IF s # <<>> /\ Head(s) \in Whitespace THEN lstrip(Tail(s)) ELSE s
RECURSIVE rstrip(_)
rstrip(s) ==
    IF s # <<>> /\ s[Len(s)] \in Whitespace THEN rstrip(SubSeq(s, 1, Len(s) - 1)) ELSE s
strip(s) == rstrip(lstrip(s))

\* needle in haystack, for strings
IsSubstring(needle, hay) ==
    \E i \in 0..(Len(hay) - Len(needle)) :
        \A j \in 1..Len(needle) : hay[i + j] = needle[j]

----------------------------------------------------------------------------
(* models.py: field constraints and validators.                            *)

NameMinLength == 3
NameMaxLength == 80
\* Decimal("1000000"), in thousandths
PrecioMax == 1000000000
CategoriasMinItems == 1
CategoriasMaxItems == 10

CATEGORIAS_PERMITIDAS ==
    { <<"f","r","u","t","a">>, <<"v","e","r","d","u","r","a">>,
      <<"g","r","a","n","o">>, <<"l","e","g","u","m","b","r","e">>,
      <<"l","a","c","t","e","o">>, <<"c","a","r","n","i","c","o">>,
      <<"p","r","o","c","e","s","a","d","o">>, <<"o","r","g","a","n","i","c","o">>,
      <<"b","e","b","i","d","a">>, <<"e","s","p","e","c","i","a">> }

\* _name_re.match(v)
name_re_match(v) ==
    /\ Len(v) >= 3
    /\ Len(v) <= 80
    /\ v[1] \in NameFirstClass
    /\ \A i \in 2..Len(v) : v[i] \in NameRestClass

\* The result of validating one field: ok, and the validated value.
Valid(x) == [ok |-> TRUE, v |-> x]
Invalid(x) == [ok |-> FALSE, v |-> x]

\* validar_nombre: the value it returns, or the ValueError
validar_nombre(raw) ==
    LET v == join(split(strip(raw)))
    IN  IF ~name_re_match(v) THEN Invalid(<<>>) ELSE Valid(v)

\* quantize with ROUND_HALF_EVEN, the default rounding of the decimal context
quantize_half_even(v) ==
    LET a == IF v >= 0 THEN v ELSE 0 - v
        down == (a \div 10) * 10
        r == IF a - down > 5 THEN down + 10
             ELSE IF a - down < 5 THEN down
             ELSE IF (down \div 10) % 2 = 0 THEN down ELSE down + 10
    IN  IF v >= 0 THEN r ELSE 0 - r

\* Decimal.quantize(Decimal("0.01"), rounding=ROUND_HALF_UP)
quantize(v) ==
    IF v >= 0 THEN ((v + 5) \div 10) * 10
    ELSE -(((-v + 5) \div 10) * 10)

\* validar_precio without the quantize
validar_precio_sin_quantize(raw) == IF raw <= 0 THEN Invalid(0) ELSE Valid(raw)

\* validar_precio
validar_precio(raw) ==
    LET q == quantize(raw)
    IN  IF q <= 0 THEN Invalid(0) ELSE Valid(q)

\* the normalisation of one category in validar_categorias
c_norm(c) == strip_accents(join(split(lower(strip(c)))))

\* the loop of validar_categorias with limpias.insert(0, c_norm) for
\* limpias.append(c_norm)
RECURSIVE validar_categorias_loop_insert(_, _)
validar_categorias_loop_insert(valores, limpias) ==
    IF valores = <<>> THEN Valid(limpias)
    ELSE LET cn == c_norm(Head(valores))
         IN  IF cn = <<>> \/ cn \notin CATEGORIAS_PERMITIDAS THEN Invalid(<<>>)
             ELSE IF \A i \in 1..Len(limpias) : limpias[i] # cn
                  THEN validar_categorias_loop_insert(Tail(valores), <<cn>> \o limpias)
                  ELSE validar_categorias_loop_insert(Tail(valores), limpias)

\* the loop of validar_categorias without the set vistos: every entry is
\* appended
RECURSIVE validar_categorias_loop_sin_vistos(_, _)
validar_categorias_loop_sin_vistos(valores, limpias) ==
    IF valores = <<>> THEN Valid(limpias)
    ELSE LET cn == c_norm(Head(valores))
         IN  IF cn = <<>> \/ cn \notin CATEGORIAS_PERMITIDAS THEN Invalid(<<>>)
             ELSE validar_categorias_loop_sin_vistos(Tail(valores), Append(limpias, cn))

\* the loop of validar_categorias over the entries not yet visited
RECURSIVE validar_categorias_loop(_, _)
validar_categorias_loop(valores, limpias) ==
    IF valores = <<>> THEN Valid(limpias)
    ELSE LET cn == c_norm(Head(valores))
         IN  IF cn = <<>> \/ cn \notin CATEGORIAS_PERMITIDAS THEN Invalid(<<>>)
             ELSE IF \A i \in 1..Len(limpias) : limpias[i] # cn
                  THEN validar_categorias_loop(Tail(valores), Append(limpias, cn))
                  ELSE validar_categorias_loop(Tail(valores), limpias)

\* validar_categorias
validar_categorias(valores) == validar_categorias_loop(valores, <<>>)

\* A field of a request body: absent, null, or a value.
Absent(d) == [k |-> "absent", v |-> d]
Null(d) == [k |-> "null", v |-> d]
Val(x) == [k |-> "val", v |-> x]

\* nombre: str = Field(min_length=3, max_length=80), then validar_nombre
campo_nombre(f) ==
    IF f.k # "val" THEN Invalid(<<>>)
    ELSE IF Len(f.v) < NameMinLength \/ Len(f.v) > NameMaxLength THEN Invalid(<<>>)
    ELSE validar_nombre(f.v)

\* precio: Decimal = Field(gt=0, le=Decimal("1000000")), then validar_precio
campo_precio(f) ==
    IF f.k # "val" THEN Invalid(0)
    ELSE IF ~(f.v > 0) \/ ~(f.v <= PrecioMax) THEN Invalid(0)
    ELSE validar_precio(f.v)

\* categorias: List[str] = Field(min_items=1, max_items=10), then validar_categorias
campo_categorias(f) ==
    IF f.k # "val" THEN Invalid(<<>>)
    ELSE IF Len(f.v) < CategoriasMinItems \/ Len(f.v) > CategoriasMaxItems THEN Invalid(<<>>)
    ELSE validar_categorias(f.v)

\* ProductoCreate(**body): the validated model, or the validation error
ProductoCreate(body) ==
    LET n == campo_nombre(body.nombre)
        p == campo_precio(body.precio)
        c == campo_categorias(body.categorias)
    IN  [ok |-> n.ok /\ p.ok /\ c.ok, nombre |-> n.v, precio |-> p.v, categorias |-> c.v]

\* Optional fields of ProductoUpdate: absent and null both give None
opcional(f, campo, d) ==
    IF f.k = "val" THEN campo ELSE Valid(d)

\* ProductoUpdate(**body): the validated model with the set of fields that
\* were set, or the validation error
ProductoUpdate(body) ==
    LET n == opcional(body.nombre, campo_nombre(body.nombre), <<>>)
        p == opcional(body.precio, campo_precio(body.precio), 0)
        c == opcional(body.categorias, campo_categorias(body.categorias), <<>>)
    IN  [ok |-> n.ok /\ p.ok /\ c.ok,
         nombre |-> [k |-> body.nombre.k, v |-> n.v],
         precio |-> [k |-> body.precio.k, v |-> p.v],
         categorias |-> [k |-> body.categorias.k, v |-> c.v]]

----------------------------------------------------------------------------
(* api.py: the in-memory repository.  _items is a dict, which keeps its    *)
(* keys in insertion order: a sequence of ProductoOut with distinct ids.   *)

\* None, for a ProductoOut and for a UUID
NoItem == [id |-> 0, nombre |-> <<>>, precio |-> 0, categorias |-> <<>>]
NoId == 0

ProductoOut(id_, prod) ==
    [id |-> id_, nombre |-> prod.nombre, precio |-> prod.precio,
     categorias |-> prod.categorias]

Keys(d) == {d[i].id : i \in 1..Len(d)}

\* d[id_] = item that moves an existing key to the end
DictSet_al_final(d, id_, item) ==
    Append(SelectSeq(d, LAMBDA x : x.id # id_), item)

\* d[id_] = item: an existing key keeps its position, a new key goes last
DictSet(d, id_, item) ==
    IF id_ \in Keys(d)
    THEN [i \in 1..Len(d) |-> IF d[i].id = id_ THEN item ELSE d[i]]
    ELSE Append(d, item)

\* del d[id_]
RECURSIVE DictDel(_, _)
DictDel(d, id_) ==
    IF d = <<>> THEN <<>>
    ELSE IF Head(d).id = id_ THEN Tail(d)
    ELSE <<Head(d)>> \o DictDel(Tail(d), id_)

\* d.get(id_)
DictGet(d, id_) ==
    IF id_ \in Keys(d) THEN d[CHOOSE i \in 1..Len(d) : d[i].id = id_] ELSE NoItem

\* the same three operations on _name_to_id, a function from names to ids
IndexSet(ix, k, id_) == [x \in (DOMAIN ix) \cup {k} |-> IF x = k THEN id_ ELSE ix[x]]
IndexDel(ix, k) == [x \in (DOMAIN ix) \ {k} |-> ix[x]]
IndexGet(ix, k) == IF k \in DOMAIN ix THEN ix[k] ELSE NoId

\* A RepoProductos: its two dicts
RepoProductos(its, ix) == [items |-> its, name_to_id |-> ix]

\* _norm_name that also strips the accents, as the search does
norm_name_sin_acentos(nombre) == strip_accents(lower(nombre))

\* _norm_name without the lower-casing
norm_name_sin_lower(nombre) == nombre

\* RepoProductos._norm_name
norm_name(nombre) == lower(nombre)

\* existe_nombre that ignores exclude_id
existe_nombre_sin_exclude(self, nombre_norm, exclude_id) ==
    IndexGet(self.name_to_id, nombre_norm) # NoId

\* RepoProductos.existe_nombre
existe_nombre(self, nombre_norm, exclude_id) ==
    LET found == IndexGet(self.name_to_id, nombre_norm)
    IN  IF found = NoId THEN FALSE
        ELSE IF exclude_id # NoId /\ found = exclude_id THEN FALSE
        ELSE TRUE

\* RepoProductos.obtener
obtener(self, id_) == DictGet(self.items, id_)

\* What a repository call leaves behind: the HTTP status it ends with (its
\* own, or that of the exception it raises), the record it returns, and the
\* repository.
Outcome(st, it, self) == [status |-> st, item |-> it, repo |-> self]

\* crear without the write to _name_to_id
crear_sin_indice(self, prod, uuid) ==
    LET item == ProductoOut(uuid, prod)
    IN  Outcome(201, item, RepoProductos(DictSet(self.items, item.id, item), self.name_to_id))

\* RepoProductos.crear, with the value uuid4 gives for the new record
crear(self, prod, uuid) ==
    LET item == ProductoOut(uuid, prod)
    IN  Outcome(201, item,
                RepoProductos(DictSet(self.items, item.id, item),
                              IndexSet(self.name_to_id, norm_name(item.nombre), item.id)))

\* actualizar_full with ProductoOut(**prod.model_dump()), which draws a new
\* id, for ProductoOut(id=id_, **prod.model_dump())
actualizar_full_id_nuevo(self, id_, prod) ==
    LET actual == obtener(self, id_)
        nombre_norm == norm_name(prod.nombre)
        viejo_norm == norm_name(actual.nombre)
        sin_viejo == IF viejo_norm \in DOMAIN self.name_to_id
                     THEN IndexDel(self.name_to_id, viejo_norm) ELSE self.name_to_id
        nuevo == ProductoOut(uuid_count + 1, prod)
    IN  IF actual = NoItem THEN Outcome(404, NoItem, self)
        ELSE IF existe_nombre(self, nombre_norm, id_) THEN Outcome(409, NoItem, self)
        ELSE Outcome(200, nuevo,
                     RepoProductos(DictSet(self.items, id_, nuevo),
                                   IndexSet(sin_viejo, nombre_norm, id_)))

\* actualizar_full that removes the index entry of the old name before it
\* checks the new name
actualizar_full_borra_antes(self, id_, prod) ==
    LET actual == obtener(self, id_)
        nombre_norm == norm_name(prod.nombre)
        viejo_norm == norm_name(actual.nombre)
        sin_viejo == IF viejo_norm \in DOMAIN self.name_to_id
                     THEN IndexDel(self.name_to_id, viejo_norm) ELSE self.name_to_id
        nuevo == ProductoOut(id_, prod)
    IN  IF actual = NoItem THEN Outcome(404, NoItem, self)
        ELSE IF existe_nombre(self, nombre_norm, id_)
        THEN Outcome(409, NoItem, RepoProductos(self.items, sin_viejo))
        ELSE Outcome(200, nuevo,
                     RepoProductos(DictSet(self.items, id_, nuevo),
                                   IndexSet(sin_viejo, nombre_norm, id_)))

\* actualizar_full that leaves the index entry of the old name
actualizar_full_sin_borrar(self, id_, prod) ==
    LET actual == obtener(self, id_)
        nombre_norm == norm_name(prod.nombre)
        nuevo == ProductoOut(id_, prod)
    IN  IF actual = NoItem THEN Outcome(404, NoItem, self)
        ELSE IF existe_nombre(self, nombre_norm, id_) THEN Outcome(409, NoItem, self)
        ELSE Outcome(200, nuevo,
                     RepoProductos(DictSet(self.items, id_, nuevo),
                                   IndexSet(self.name_to_id, nombre_norm, id_)))

\* actualizar_full without the check that the record exists
actualizar_full_upsert(self, id_, prod) ==
    LET actual == obtener(self, id_)
        nombre_norm == norm_name(prod.nombre)
        viejo_norm == norm_name(actual.nombre)
        sin_viejo == IF viejo_norm \in DOMAIN self.name_to_id
                     THEN IndexDel(self.name_to_id, viejo_norm) ELSE self.name_to_id
        nuevo == ProductoOut(id_, prod)
    IN  IF existe_nombre(self, nombre_norm, id_) THEN Outcome(409, NoItem, self)
        ELSE Outcome(200, nuevo,
                     RepoProductos(DictSet(self.items, id_, nuevo),
                                   IndexSet(sin_viejo, nombre_norm, id_)))

\* RepoProductos.actualizar_full
actualizar_full(self, id_, prod) ==
    LET actual == obtener(self, id_)
        nombre_norm == norm_name(prod.nombre)
        viejo_norm == norm_name(actual.nombre)
        sin_viejo == IF viejo_norm \in DOMAIN self.name_to_id
                     THEN IndexDel(self.name_to_id, viejo_norm) ELSE self.name_to_id
        nuevo == ProductoOut(id_, prod)
    IN  IF actual = NoItem THEN Outcome(404, NoItem, self)
        ELSE IF existe_nombre(self, nombre_norm, id_) THEN Outcome(409, NoItem, self)
        ELSE Outcome(200, nuevo,
                     RepoProductos(DictSet(self.items, id_, nuevo),
                                   IndexSet(sin_viejo, nombre_norm, id_)))

\* base.update(patch): a field that was set replaces the current value
merge(actual_v, f) == IF f.k = "absent" THEN Val(actual_v) ELSE f

\* RepoProductos.actualizar_partial; building the candidate raises a
\* validation error inside the handler, which the framework answers with 500
actualizar_partial(self, id_, cambios) ==
    LET actual == obtener(self, id_)
        base == [nombre |-> merge(actual.nombre, cambios.nombre),
                 precio |-> merge(actual.precio, cambios.precio),
                 categorias |-> merge(actual.categorias, cambios.categorias)]
        candidato == ProductoCreate(base)
    IN  IF actual = NoItem THEN Outcome(404, NoItem, self)
        ELSE IF ~candidato.ok THEN Outcome(500, NoItem, self)
        ELSE IF /\ lower(candidato.nombre) # lower(actual.nombre)
                /\ existe_nombre(self, norm_name(candidato.nombre), NoId)
             THEN Outcome(409, NoItem, self)
        ELSE actualizar_full(self, id_, candidato)

\* borrar without the removal of the name-index entry
borrar_sin_indice(self, id_) ==
    LET actual == obtener(self, id_)
    IN  IF actual = NoItem THEN Outcome(404, NoItem, self)
        ELSE Outcome(204, NoItem, RepoProductos(DictDel(self.items, id_), self.name_to_id))

\* RepoProductos.borrar
borrar(self, id_) ==
    LET actual == obtener(self, id_)
        norm == norm_name(actual.nombre)
    IN  IF actual = NoItem THEN Outcome(404, NoItem, self)
        ELSE Outcome(204, NoItem,
                     RepoProductos(DictDel(self.items, id_),
                                   IF IndexGet(self.name_to_id, norm) = id_
                                   THEN IndexDel(self.name_to_id, norm)
                                   ELSE self.name_to_id))

\* pasa with p.precio > min_precio for p.precio >= min_precio
pasa_min_estricto(p, q, categoria, min_precio, max_precio) ==
    /\ (q.k = "val" /\ q.v # <<>>) =>
          IsSubstring(strip_accents(lower(strip(q.v))), strip_accents(lower(p.nombre)))
    /\ (categoria.k = "val" /\ categoria.v # <<>>) =>
          \E i \in 1..Len(p.categorias) :
              p.categorias[i] = strip_accents(lower(strip(categoria.v)))
    /\ min_precio.k = "val" => p.precio > min_precio.v
    /\ max_precio.k = "val" => p.precio <= max_precio.v

\* the conditions of the four list comprehensions of RepoProductos.listar on
\* one record; None is an absent field
pasa(p, q, categoria, min_precio, max_precio) ==
    /\ (q.k = "val" /\ q.v # <<>>) =>
          IsSubstring(strip_accents(lower(strip(q.v))), strip_accents(lower(p.nombre)))
    /\ (categoria.k = "val" /\ categoria.v # <<>>) =>
          \E i \in 1..Len(p.categorias) :
              p.categorias[i] = strip_accents(lower(strip(categoria.v)))
    /\ min_precio.k = "val" => p.precio >= min_precio.v
    /\ max_precio.k = "val" => p.precio <= max_precio.v

\* the list comprehensions: the records that pass, in the order of datos
RECURSIVE SelectItems(_, _, _, _, _)
SelectItems(datos, q, categoria, min_precio, max_precio) ==
    IF datos = <<>> THEN <<>>
    ELSE LET rest == SelectItems(Tail(datos), q, categoria, min_precio, max_precio)
         IN  IF pasa(Head(datos), q, categoria, min_precio, max_precio)
             THEN <<Head(datos)>> \o rest ELSE rest

\* datos[offset: offset + limit], for offset >= 0 and limit >= 0
Slice(datos, offset, limit) ==
    LET hi == IF offset + limit < Len(datos) THEN offset + limit ELSE Len(datos)
    IN  IF offset >= hi THEN <<>> ELSE SubSeq(datos, offset + 1, hi)

\* listar with total taken after the slice
listar_total_pagina(self, q, categoria, min_precio, max_precio, limit, offset) ==
    LET datos == SelectItems(self.items, q, categoria, min_precio, max_precio)
    IN  [page |-> Slice(datos, offset, limit), total |-> Len(Slice(datos, offset, limit))]

\* RepoProductos.listar
listar(self, q, categoria, min_precio, max_precio, limit, offset) ==
    LET datos == SelectItems(self.items, q, categoria, min_precio, max_precio)
    IN  [page |-> Slice(datos, offset, limit), total |-> Len(datos)]

----------------------------------------------------------------------------
(* api.py: the endpoints.  An endpoint is a function of the repository and *)
(* the request; it gives the response and the repository it leaves.        *)

LimitMin == 1
LimitMax == 100
QMinLength == 1
QMaxLength == 80

\* A response: the endpoint, the path id, the HTTP status, the record in the
\* body, the page and total of a list, the fields a patch had set, and
\* whether the request reached RepoProductos.listar
Response(op, id_, status, item, page, total, campos, listado) ==
    [op |-> op, id |-> id_, status |-> status, item |-> item, page |-> page,
     total |-> total, campos |-> campos, listado |-> listado]

Reply(op, id_, status, item) == Response(op, id_, status, item, <<>>, 0, {}, FALSE)

Result(r, self) == [resp |-> r, repo |-> self]

\* crear_producto: POST /productos, with the value uuid4 would give
crear_producto(self, body, uuid) ==
    LET payload == ProductoCreate(body)
    IN  IF ~payload.ok THEN Result(Reply("create", NoId, 422, NoItem), self)
        ELSE IF existe_nombre(self, lower(payload.nombre), NoId)
        THEN Result(Reply("create", NoId, 409, NoItem), self)
        ELSE LET out == crear(self, payload, uuid)
             IN  Result(Reply("create", NoId, out.status, out.item), out.repo)

\* obtener_producto: GET /productos/{id}
obtener_producto(self, id_) ==
    LET prod == obtener(self, id_)
    IN  IF prod = NoItem THEN Result(Reply("get", id_, 404, NoItem), self)
        ELSE Result(Reply("get", id_, 200, prod), self)

\* reemplazar_producto: PUT /productos/{id}
reemplazar_producto(self, id_, body) ==
    LET payload == ProductoCreate(body)
    IN  IF ~payload.ok THEN Result(Reply("replace", id_, 422, NoItem), self)
        ELSE LET out == actualizar_full(self, id_, payload)
             IN  Result(Reply("replace", id_, out.status, out.item), out.repo)

\* the keys of payload.model_dump(exclude_unset=True)
campos_enviados(payload) ==
    {f \in {"nombre", "precio", "categorias"} : payload[f].k # "absent"}

\* actualizar_parcial_producto: PATCH /productos/{id}
actualizar_parcial_producto(self, id_, body) ==
    LET payload == ProductoUpdate(body)
        campos == campos_enviados(body)
    IN  IF ~payload.ok
        THEN Result(Response("patch", id_, 422, NoItem, <<>>, 0, campos, FALSE), self)
        ELSE IF campos_enviados(payload) = {}
        THEN Result(Response("patch", id_, 400, NoItem, <<>>, 0, campos, FALSE), self)
        ELSE LET out == actualizar_partial(self, id_, payload)
             IN  Result(Response("patch", id_, out.status, out.item, <<>>, 0, campos, FALSE),
                        out.repo)

\* eliminar_producto: DELETE /productos/{id}
eliminar_producto(self, id_) ==
    LET out == borrar(self, id_)
    IN  Result(Reply("delete", id_, out.status, NoItem), out.repo)

\* the Query(...) constraints of GET /productos
query_ok(q, categoria, min_precio, max_precio, limit, offset) ==
    /\ q.k = "val" => Len(q.v) >= QMinLength /\ Len(q.v) <= QMaxLength
    /\ min_precio.k = "val" => min_precio.v > 0
    /\ max_precio.k = "val" => max_precio.v > 0
    /\ limit >= LimitMin /\ limit <= LimitMax
    /\ offset >= 0

\* listar_productos with min_precio >= max_precio for min_precio > max_precio
listar_productos_ge(self, q, categoria, min_precio, max_precio, limit, offset) ==
    IF ~query_ok(q, categoria, min_precio, max_precio, limit, offset)
    THEN Result(Reply("list", NoId, 422, NoItem), self)
    ELSE IF min_precio.k = "val" /\ max_precio.k = "val" /\ min_precio.v >= max_precio.v
    THEN Result(Reply("list", NoId, 400, NoItem), self)
    ELSE LET r == listar(self, q, categoria, min_precio, max_precio, limit, offset)
         IN  Result(Response("list", NoId, 200, NoItem, r.page, r.total, {}, TRUE), self)

\* listar_productos: GET /productos
listar_productos(self, q, categoria, min_precio, max_precio, limit, offset) ==
    IF ~query_ok(q, categoria, min_precio, max_precio, limit, offset)
    THEN Result(Reply("list", NoId, 422, NoItem), self)
    ELSE IF min_precio.k = "val" /\ max_precio.k = "val" /\ min_precio.v > max_precio.v
    THEN Result(Reply("list", NoId, 400, NoItem), self)
    ELSE LET r == listar(self, q, categoria, min_precio, max_precio, limit, offset)
         IN  Result(Response("list", NoId, 200, NoItem, r.page, r.total, {}, TRUE), self)

----------------------------------------------------------------------------
(* The requests of the model.                                              *)

Ids == 1..MaxIds

\* names: "Abc", "abc", " xy  z " (stored as "xy z"), and "ab" (too short)
Abc == <<"A","b","c">>
abc == <<"a","b","c">>
xyz_raw == <<" ","x","y"," "," ","z"," ">>
NombresIn == {Abc, abc, xyz_raw}
NombreCorto == <<"a","b">>

\* prices, in thousandths: 0.005 and 1000000 are accepted, 0.004 rounds to
\* zero and 1000000.004 is above the maximum
PreciosIn == {5, 1000000000}
PreciosMalos == {4, 1000000004}

\* category lists: ["Fruta", "FRUTA ", "verdura"] and ["grano"]
FrutaVerdura ==
    << <<"F","r","u","t","a">>, <<"F","R","U","T","A"," ">>,
       <<"v","e","r","d","u","r","a">> >>
Grano == << <<"g","r","a","n","o">> >>
CategoriasIn == {FrutaVerdura, Grano}

Body(n, p, c) == [nombre |-> n, precio |-> p, categorias |-> c]

\* the bodies of POST and PUT: the valid ones, and bodies with one bad field
Bodies ==
    {Body(Val(n), Val(p), Val(c)) : n \in NombresIn, p \in PreciosIn, c \in CategoriasIn}
    \cup {Body(Val(NombreCorto), Val(5), Val(Grano)),
          Body(Absent(<<>>), Val(5), Val(Grano)),
          Body(Val(abc), Val(5), Val(<<>>))}
    \cup {Body(Val(abc), Val(p), Val(Grano)) : p \in PreciosMalos}

\* the bodies of PATCH: no field, one field (null, good or bad), or several
Patches ==
    {Body(Absent(<<>>), Absent(0), Absent(<<>>))}
    \cup {Body(n, Absent(0), Absent(<<>>)) :
            n \in {Null(<<>>), Val(NombreCorto)} \cup {Val(x) : x \in NombresIn}}
    \cup {Body(Absent(<<>>), p, Absent(<<>>)) :
            p \in {Null(0)} \cup {Val(x) : x \in PreciosIn \cup PreciosMalos}}
    \cup {Body(Absent(<<>>), Absent(0), c) :
            c \in {Null(<<>>), Val(<<>>)} \cup {Val(x) : x \in CategoriasIn}}
    \cup {Body(Val(abc), Val(1000000000), Absent(<<>>)),
          Body(Absent(<<>>), Val(5), Val(Grano)),
          Body(Val(xyz_raw), Val(5), Val(FrutaVerdura))}

\* the queries of GET /productos: q, categoria, min_precio, max_precio,
\* limit, offset
Query(q, c, mn, mx, l, o) ==
    [q |-> q, categoria |-> c, min_precio |-> mn, max_precio |-> mx, limit |-> l, offset |-> o]
NoQ == Absent(<<>>)
NoP == Absent(0)
Queries ==
    { Query(NoQ, NoQ, NoP, NoP, 1, 0),
      Query(Val(<<"B">>), NoQ, Val(10), NoP, 2, 1),
      Query(NoQ, Val(<<"G","r","a","n","o"," ">>), Val(10), Val(1000000000), 1, 1),
      Query(NoQ, NoQ, Val(1000000000), Val(10), 1, 0),
      Query(NoQ, NoQ, NoP, NoP, 0, 0) }

----------------------------------------------------------------------------
(* The service: one action per request, run to completion.                 *)

\* _repo, the one repository of the process
repo == RepoProductos(items, name_to_id)

\* item.id of a new ProductoOut: default_factory=uuid4, a value never seen
uuid4 == uuid_count + 1

\* no field validation under study
NoVal == [campo |-> "none", raw |-> 0, done |-> FALSE, out |-> Invalid(0)]

\* the connections of the server, and a connection without a request
Slots == 1..MaxPend
Libre ==
    [pos |-> "libre", op |-> "none", id |-> NoId, body |-> Body(Absent(<<>>), Absent(0), Absent(<<>>)),
     actual |-> NoItem, prod |-> NoItem, status |-> 0, item |-> NoItem]
SinPendientes == [p \in Slots |-> Libre]

Init ==
    /\ items = <<>>
    /\ name_to_id = <<>>
    /\ uuid_count = 0
    /\ resp = Reply("none", NoId, 0, NoItem)
    /\ val = NoVal
    /\ pend = SinPendientes

\* the request is answered with r.resp and leaves the repository r.repo
Serve(r) ==
    /\ resp' = r.resp
    /\ items' = r.repo.items
    /\ name_to_id' = r.repo.name_to_id
    /\ UNCHANGED <<val, pend>>

POST_productos(body) ==
    /\ Serve(crear_producto(repo, body, uuid4))
    /\ uuid_count' = IF resp'.status = 201 THEN uuid_count + 1 ELSE uuid_count

GET_producto(id_) ==
    /\ Serve(obtener_producto(repo, id_))
    /\ UNCHANGED uuid_count

PUT_producto(id_, body) ==
    /\ Serve(reemplazar_producto(repo, id_, body))
    /\ UNCHANGED uuid_count

PATCH_producto(id_, body) ==
    /\ Serve(actualizar_parcial_producto(repo, id_, body))
    /\ UNCHANGED uuid_count

DELETE_producto(id_) ==
    /\ Serve(eliminar_producto(repo, id_))
    /\ UNCHANGED uuid_count

GET_productos(y) ==
    /\ Serve(listar_productos(repo, y.q, y.categoria, y.min_precio, y.max_precio,
                              y.limit, y.offset))
    /\ UNCHANGED uuid_count

Next ==
    \/ \E body \in Bodies : POST_productos(body) /\ uuid_count' <= MaxIds
    \/ \E id_ \in Ids : GET_producto(id_)
    \/ \E id_ \in Ids, body \in Bodies : PUT_producto(id_, body)
    \/ \E id_ \in Ids, body \in Patches : PATCH_producto(id_, body)
    \/ \E id_ \in Ids : DELETE_producto(id_)
    \/ \E y \in Queries : GET_productos(y)

Spec == Init /\ [][Next]_vars

----------------------------------------------------------------------------
(* The price validation on its own: one input, validated once.             *)

PreciosRaw ==
    ((0 - Vecindad)..Vecindad) \cup ((2000 - Vecindad)..(2000 + Vecindad))
        \cup ((PrecioMax - Vecindad)..(PrecioMax + Vecindad))

InitPrecio ==
    /\ items = <<>>
    /\ name_to_id = <<>>
    /\ uuid_count = 0
    /\ resp = Reply("none", NoId, 0, NoItem)
    /\ pend = SinPendientes
    /\ val \in {[campo |-> "precio", raw |-> x, done |-> FALSE, out |-> Invalid(0)] :
                  x \in PreciosRaw}

\* the validation of the field precio of ProductoCreate
validate_price ==
    /\ val.campo = "precio"
    /\ ~val.done
    /\ val' = [val EXCEPT !.done = TRUE, !.out = campo_precio(Val(val.raw))]
    /\ UNCHANGED <<items, name_to_id, uuid_count, resp, pend>>

NextPrecio == validate_price

SpecPrecio == InitPrecio /\ [][NextPrecio]_vars

----------------------------------------------------------------------------
(* The name validation on its own: one input, validated once.              *)

\* n spaces, and a name of n letters
Espacios(n) == [i \in 1..n |-> " "]
Letras(n) == [i \in 1..n |-> "a"]

\* what stands before and after the text of a raw name
Relleno == {<<>>, <<" ">>, <<"TAB", " ">>}

\* the texts: empty, too short, shortest, runs of whitespace inside, a bad
\* first character, an accent, a character outside the pattern, and the
\* lengths around the maximum
Nucleos ==
    { <<>>, <<"a">>, <<"a","b">>, Abc, <<"a"," ","b">>, <<"a"," "," ","b">>,
      <<"a","TAB","b">>, <<"-","a","b">>, <<"a'","b","c">>, <<"a","b","!">>,
      <<"a",".","b","-","c","_","1">>,
      Letras(79), Letras(80), Letras(81),
      <<"a">> \o Espacios(78) \o <<"b">>, <<"a">> \o Espacios(79) \o <<"b">> }

\* every text with every padding, and short texts padded beyond the maximum
NombresRaw ==
    {l \o c \o t : l \in Relleno, c \in Nucleos, t \in Relleno}
    \cup {c \o Espacios(n) : c \in {<<"a","b">>, Abc}, n \in {77, 78, 79}}
    \cup {Espacios(n) \o Abc : n \in {77, 78}}

InitNombre ==
    /\ items = <<>>
    /\ name_to_id = <<>>
    /\ uuid_count = 0
    /\ resp = Reply("none", NoId, 0, NoItem)
    /\ pend = SinPendientes
    /\ val \in {[campo |-> "nombre", raw |-> x, done |-> FALSE, out |-> Invalid(<<>>)] :
                  x \in NombresRaw}

\* the validation of the field nombre of ProductoCreate
validate_name ==
    /\ val.campo = "nombre"
    /\ ~val.done
    /\ val' = [val EXCEPT !.done = TRUE, !.out = campo_nombre(Val(val.raw))]
    /\ UNCHANGED <<items, name_to_id, uuid_count, resp, pend>>

NextNombre == validate_name

SpecNombre == InitNombre /\ [][NextNombre]_vars

----------------------------------------------------------------------------
(* The category validation on its own, and as the field of a record: one   *)
(* input list, validated once, sent in a create and in a patch.            *)

\* entries: "Fruta", "FRUTA ", "verdura", " lActeo" with an accent on the A
\* and a tabulator in front, "fru ta", "xx" and the empty string
EntradasRaw ==
    { <<"F","r","u","t","a">>, <<"F","R","U","T","A"," ">>,
      <<"v","e","r","d","u","r","a">>, <<"TAB","l","A'","c","t","e","o">>,
      <<"f","r","u"," ","t","a">>, <<"x","x">>, <<>> }

\* the ten allowed categories, once each
DiezCategorias ==
    << <<"f","r","u","t","a">>, <<"v","e","r","d","u","r","a">>,
       <<"g","r","a","n","o">>, <<"l","e","g","u","m","b","r","e">>,
       <<"l","a","c","t","e","o">>, <<"c","a","r","n","i","c","o">>,
       <<"p","r","o","c","e","s","a","d","o">>, <<"o","r","g","a","n","i","c","o">>,
       <<"b","e","b","i","d","a">>, <<"e","s","p","e","c","i","a">> >>

\* the lists of up to three entries, and lists of nine to eleven entries with
\* and without repetitions
CategoriasRaw ==
    {<<>>}
    \cup {<<a>> : a \in EntradasRaw}
    \cup {<<a, b>> : a \in EntradasRaw, b \in EntradasRaw}
    \cup {<<a, b, c>> : a \in EntradasRaw, b \in EntradasRaw, c \in EntradasRaw}
    \cup {DiezCategorias, SubSeq(DiezCategorias, 1, 9),
          DiezCategorias \o <<(<<"F","r","u","t","a">>)>>,
          SubSeq(DiezCategorias, 1, 9) \o <<(<<"F","r","u","t","a">>)>>,
          SubSeq(DiezCategorias, 1, 9) \o <<(<<"x","x">>)>>,
          [i \in 1..10 |-> <<"F","R","U","T","A"," ">>],
          [i \in 1..11 |-> <<"F","R","U","T","A"," ">>]}

InitCategorias ==
    /\ items = <<>>
    /\ name_to_id = <<>>
    /\ uuid_count = 0
    /\ resp = Reply("none", NoId, 0, NoItem)
    /\ pend = SinPendientes
    /\ val \in {[campo |-> "categorias", raw |-> x, done |-> FALSE, out |-> Invalid(<<>>)] :
                  x \in CategoriasRaw}

\* the validation of the field categorias of ProductoCreate
validate_categories ==
    /\ val.campo = "categorias"
    /\ ~val.done
    /\ val' = [val EXCEPT !.done = TRUE, !.out = campo_categorias(Val(val.raw))]
    /\ UNCHANGED <<items, name_to_id, uuid_count, resp, pend>>

\* a create with the list or with ["grano"], and a patch of the first record
\* with the list
NextCategorias ==
    \/ validate_categories
    \/ \E c \in {val.raw, Grano} :
          POST_productos(Body(Val(abc), Val(5), Val(c))) /\ uuid_count' <= 1
    \/ PATCH_producto(1, Body(Absent(<<>>), Absent(0), Val(val.raw)))

SpecCategorias == InitCategorias /\ [][NextCategorias]_vars

----------------------------------------------------------------------------
(* The list endpoint over stores of up to three records with three         *)
(* different names ("Abc", "a'bc", "xy z"), prices and categories.         *)

a_bc == <<"a'","b","c">>

BodiesList ==
    { Body(Val(Abc), Val(5), Val(FrutaVerdura)),
      Body(Val(a_bc), Val(1000000000), Val(Grano)),
      Body(Val(xyz_raw), Val(5), Val(Grano)) }

IdsList == 1..MaxIdsList
PreciosList == {NoP, Val(10), Val(1000000000)}
LimitsList == {1, 2}
OffsetsList == {0, 1, 3}

\* texts: one space, "c ", an accented "A", "xy  z" with two spaces, "z "
TextosList ==
    { Val(<<" ">>), Val(<<"c"," ">>), Val(<<"A'">>),
      Val(<<"x","y"," "," ","z">>), Val(<<"z"," ">>) }

\* categories: the empty string, one space, "fru ta", " FRUTA"
CategoriasList ==
    { Val(<<>>), Val(<<" ">>), Val(<<"f","r","u"," ","t","a">>),
      Val(<<" ","F","R","U","T","A">>) }

\* every combination of a text, a category, the price bounds, limits and
\* offsets; the greatest limit; queries outside the declared ranges; and the
\* texts and categories above on their own
QueriesList ==
    { Query(q, c, mn, mx, l, o) :
        q \in {NoQ, Val(<<"B">>)},
        c \in {NoQ, Val(<<"G","r","a","n","o"," ">>)},
        mn \in PreciosList, mx \in PreciosList,
        l \in LimitsList, o \in OffsetsList }
    \cup { Query(Val(<<"y"," ">>), NoQ, NoP, NoP, 100, 0),
           Query(NoQ, NoQ, NoP, Val(10), 100, 2),
           Query(NoQ, NoQ, NoP, NoP, 0, 0), Query(NoQ, NoQ, NoP, NoP, 101, 0),
           Query(NoQ, NoQ, NoP, NoP, 1, 0 - 1), Query(NoQ, NoQ, Val(0), NoP, 1, 0),
           Query(NoQ, NoQ, Val(10), Val(0 - 5), 1, 0), Query(Val(<<>>), NoQ, NoP, NoP, 1, 0) }
    \cup { Query(q, NoQ, NoP, NoP, 100, 0) : q \in TextosList }
    \cup { Query(NoQ, c, NoP, NoP, 100, 0) : c \in CategoriasList }

NextList ==
    \/ \E body \in BodiesList : POST_productos(body) /\ uuid_count' <= MaxIdsList
    \/ \E id_ \in IdsList : DELETE_producto(id_)
    \/ \E y \in QueriesList : GET_productos(y)

SpecList == Init /\ [][NextList]_vars

----------------------------------------------------------------------------
(* Names that differ by accents and by case: "abc", "a'bc" and "A'bc".     *)

A_bc == <<"A'","b","c">>
NombresAcentos == {abc, a_bc, A_bc}

BodiesAcentos ==
    {Body(Val(n), Val(p), Val(Grano)) : n \in NombresAcentos, p \in PreciosIn}

PatchesAcentos ==
    {Body(Val(n), Absent(0), Absent(<<>>)) : n \in NombresAcentos}
    \cup {Body(Absent(<<>>), Val(5), Absent(<<>>))}

\* a text search for each spelling, with the greatest page
QueriesAcentos ==
    {Query(Val(n), NoQ, NoP, NoP, 100, 0) : n \in NombresAcentos \cup {Abc}}

NextAcentos ==
    \/ \E body \in BodiesAcentos : POST_productos(body) /\ uuid_count' <= MaxIds
    \/ \E id_ \in Ids, body \in BodiesAcentos : PUT_producto(id_, body)
    \/ \E id_ \in Ids, body \in PatchesAcentos : PATCH_producto(id_, body)
    \/ \E id_ \in Ids : DELETE_producto(id_)
    \/ \E y \in QueriesAcentos : GET_productos(y)

SpecAcentos == Init /\ [][NextAcentos]_vars

----------------------------------------------------------------------------
(* Requests in flight.  A request is received (its body parsed), then its  *)
(* handler runs on the event loop until it ends or is suspended at an      *)
(* await, and its response is sent.  Other requests run in between.        *)

\* await of a repository call suspends the handler at every call
suspende_siempre(llamada) == TRUE

\* whether await repo.<llamada>(...) gives the event loop to other requests:
\* the methods of RepoProductos are coroutines that await nothing that
\* blocks, so they run to their return without leaving the handler
suspende(llamada) == FALSE

\* RepoProductos.actualizar_full after its two checks: the writes, with the
\* record read at the start of the call
actualizar_full_escribe(self, id_, prod, actual) ==
    LET nombre_norm == norm_name(prod.nombre)
        viejo_norm == norm_name(actual.nombre)
        sin_viejo == IF viejo_norm \in DOMAIN self.name_to_id
                     THEN IndexDel(self.name_to_id, viejo_norm) ELSE self.name_to_id
        nuevo == ProductoOut(id_, prod)
    IN  Outcome(200, nuevo,
                RepoProductos(DictSet(self.items, id_, nuevo),
                              IndexSet(sin_viejo, nombre_norm, id_)))

\* the handler of the request of connection s, run from its position to its
\* end or to the await of existe_nombre that precedes its writes
atender(self, s, uuid) ==
    IF s.pos = "recibido"
    THEN LET r == IF s.op = "create" THEN crear_producto(self, s.body, uuid)
                  ELSE IF s.op = "replace" THEN reemplazar_producto(self, s.id, s.body)
                  ELSE actualizar_parcial_producto(self, s.id, s.body)
         IN  IF r.resp.status \in {200, 201} /\ suspende("existe_nombre")
             THEN [slot |-> [s EXCEPT !.pos = "tras_existe",
                                      !.actual = obtener(self, s.id),
                                      !.prod = r.resp.item],
                   repo |-> self]
             ELSE [slot |-> [s EXCEPT !.pos = "respondido",
                                      !.status = r.resp.status,
                                      !.item = r.resp.item],
                   repo |-> r.repo]
    ELSE LET out == IF s.op = "create" THEN crear(self, s.prod, uuid)
                    ELSE actualizar_full_escribe(self, s.id, s.prod, s.actual)
         IN  [slot |-> [s EXCEPT !.pos = "respondido",
                                 !.status = out.status,
                                 !.item = out.item],
              repo |-> out.repo]

\* creates with "Abc", "abc", " xy  z " and "ab", replaces with "abc" and
\* patches with "Abc"
BodiesPend ==
    {Body(Val(n), Val(5), Val(Grano)) : n \in NombresIn}
    \cup {Body(Val(NombreCorto), Val(5), Val(Grano))}
PutsPend == {Body(Val(abc), Val(5), Val(Grano))}
PatchesPend == {Body(Val(Abc), Absent(0), Absent(<<>>))}

\* a request arrives on a free connection
Recibe(p, op, id_, body) ==
    /\ pend[p].pos = "libre"
    /\ pend' = [pend EXCEPT ![p] = [Libre EXCEPT !.pos = "recibido", !.op = op,
                                                 !.id = id_, !.body = body]]
    /\ UNCHANGED <<items, name_to_id, uuid_count, resp, val>>

\* the event loop runs the handler of a request
Atiende(p) ==
    /\ pend[p].pos \in {"recibido", "tras_existe"}
    /\ \E r \in {atender(repo, pend[p], uuid4)} :
           /\ pend' = [pend EXCEPT ![p] = r.slot]
           /\ items' = r.repo.items
           /\ name_to_id' = r.repo.name_to_id
           /\ uuid_count' = IF r.slot.status = 201 THEN uuid_count + 1 ELSE uuid_count
    /\ UNCHANGED <<resp, val>>

\* the response is sent and the connection is free again
Entrega(p) ==
    /\ pend[p].pos = "respondido"
    /\ pend' = [pend EXCEPT ![p] = Libre]
    /\ UNCHANGED <<items, name_to_id, uuid_count, resp, val>>

NextPend ==
    \/ \E p \in Slots, body \in BodiesPend : Recibe(p, "create", NoId, body)
    \/ \E p \in Slots, id_ \in Ids, body \in PutsPend : Recibe(p, "replace", id_, body)
    \/ \E p \in Slots, id_ \in Ids, body \in PatchesPend : Recibe(p, "patch", id_, body)
    \/ \E p \in Slots : Atiende(p) /\ uuid_count' <= MaxIds
    \/ \E p \in Slots : Entrega(p)

SpecPend == Init /\ [][NextPend]_vars

----------------------------------------------------------------------------
(* The order of the store: up to three records that are replaced, patched, *)
(* deleted and listed without filters.                                     *)

PatchesOrden == {Body(Absent(<<>>), Val(1000000000), Absent(<<>>))}

\* no filter, the greatest page
SinFiltros == Query(NoQ, NoQ, NoP, NoP, LimitMax, 0)

NextOrden ==
    \/ \E body \in BodiesList : POST_productos(body) /\ uuid_count' <= MaxIdsList
    \/ \E id_ \in IdsList, body \in BodiesList : PUT_producto(id_, body)
    \/ \E id_ \in IdsList, body \in PatchesOrden : PATCH_producto(id_, body)
    \/ \E id_ \in IdsList : DELETE_producto(id_)
    \/ GET_productos(SinFiltros)

SpecOrden == Init /\ [][NextOrden]_vars

----------------------------------------------------------------------------
(* Requests that fail: every kind of refusal of every endpoint, next to a  *)
(* few requests that succeed.                                              *)

\* bodies: three names at one price, and a body for each field that can be
\* wrong (a name of two characters, no name, a price that rounds to zero, a
\* price above the maximum, no category)
BodiesFallos ==
    {Body(Val(n), Val(5), Val(Grano)) : n \in NombresIn}
    \cup {Body(Val(NombreCorto), Val(5), Val(Grano)),
          Body(Absent(<<>>), Val(5), Val(Grano)),
          Body(Val(abc), Val(5), Val(<<>>))}
    \cup {Body(Val(abc), Val(p), Val(Grano)) : p \in PreciosMalos}

\* patches: no field, a null for each field, a wrong value for each field,
\* each name, and a price
PatchesFallos ==
    {Body(Absent(<<>>), Absent(0), Absent(<<>>)),
     Body(Null(<<>>), Absent(0), Absent(<<>>)),
     Body(Absent(<<>>), Null(0), Absent(<<>>)),
     Body(Absent(<<>>), Absent(0), Null(<<>>)),
     Body(Val(NombreCorto), Absent(0), Absent(<<>>)),
     Body(Absent(<<>>), Val(4), Absent(<<>>)),
     Body(Absent(<<>>), Absent(0), Val(<<>>)),
     Body(Absent(<<>>), Val(1000000000), Absent(<<>>))}
    \cup {Body(Val(n), Absent(0), Absent(<<>>)) : n \in NombresIn}

NextFallos ==
    \/ \E body \in BodiesFallos : POST_productos(body) /\ uuid_count' <= MaxIds
    \/ \E id_ \in Ids : GET_producto(id_)
    \/ \E id_ \in Ids, body \in BodiesFallos : PUT_producto(id_, body)
    \/ \E id_ \in Ids, body \in PatchesFallos : PATCH_producto(id_, body)
    \/ \E id_ \in Ids : DELETE_producto(id_)
    \/ \E y \in Queries : GET_productos(y)

SpecFallos == Init /\ [][NextFallos]_vars

----------------------------------------------------------------------------
(* Properties.  A property about a request is stated for every request of  *)
(* the model in every reachable state, on the result the endpoint gives.   *)

Abs(x) == IF x < 0 THEN 0 - x ELSE x

\* the multiple of 0.01 nearest to x, the one away from zero on a tie
RoundHalfAway(x) ==
    CHOOSE m \in (x - 10)..(x + 10) :
        /\ Abs(m) % 10 = 0
        /\ 2 * Abs(x - m) <= 10
        /\ 2 * Abs(x - m) = 10 => Abs(m) > Abs(x)

\* the lower-cased names of the live records of a repository
FoldedNames(self) == {lower(self.items[i].nombre) : i \in 1..Len(self.items)}

\* C1: no two live records have names that are equal after lower-casing.
C1_Uniqueness ==
    \A i, j \in 1..Len(items) :
        i # j => lower(items[i].nombre) # lower(items[j].nombre)

\* two live records, one of them just renamed by a patch
C1_Witness ==
    /\ Len(items) >= 2
    /\ resp.op = "patch"
    /\ resp.status = 200
    /\ "nombre" \in resp.campos

\* C2: a create of a valid candidate whose lower-cased name is the
\* lower-cased name of a live record answers 409 (DuplicateName) and adds no
\* record; a create of a valid candidate whose lower-cased name no live record
\* has answers 201 with an id that no live record had, and the record is
\* stored under that id.
C2_Create ==
    \A body \in Bodies :
        LET payload == ProductoCreate(body)
            r == crear_producto(repo, body, uuid4)
        IN  payload.ok =>
              IF lower(payload.nombre) \in FoldedNames(repo)
              THEN /\ r.resp.status = 409
                   /\ r.repo = repo
              ELSE /\ r.resp.status = 201
                   /\ r.resp.item.id \notin Keys(items)
                   /\ r.resp.item = ProductoOut(r.resp.item.id, payload)
                   /\ Keys(r.repo.items) = Keys(items) \cup {r.resp.item.id}
                   /\ DictGet(r.repo.items, r.resp.item.id) = r.resp.item
                   /\ \A id_ \in Keys(items) : DictGet(r.repo.items, id_) = DictGet(items, id_)

\* a create has just been refused as a duplicate while two records are live
C2_Witness ==
    /\ resp.op = "create"
    /\ resp.status = 409
    /\ Len(items) >= 2

\* C3: when delete(id) removes a record named n, a create that comes next
\* with a valid candidate whose name lower-cases to the same value as n is
\* accepted (201, not DuplicateName).
C3_DeleteReleasesName ==
    \A id_ \in Keys(items) :
        LET n == obtener(repo, id_).nombre
            d == eliminar_producto(repo, id_)
        IN  /\ d.resp.status = 204
            /\ \A body \in Bodies :
                  (/\ ProductoCreate(body).ok
                   /\ lower(ProductoCreate(body).nombre) = lower(n))
                  => crear_producto(d.repo, body, uuid4).resp.status = 201

\* the second create has succeeded after a delete had removed the record of
\* the first
C3_Witness ==
    /\ resp.op = "create"
    /\ resp.status = 201
    /\ Len(items) = 1
    /\ uuid_count = 2

\* C4: a successful patch leaves every field that is absent from its body
\* as it was in the stored record.
C4_PatchFrame ==
    \A id_ \in Ids, body \in Patches :
        LET r == actualizar_parcial_producto(repo, id_, body)
            antes == obtener(repo, id_)
            despues == obtener(r.repo, id_)
        IN  r.resp.status = 200 =>
              /\ body.nombre.k = "absent" => despues.nombre = antes.nombre
              /\ body.precio.k = "absent" => despues.precio = antes.precio
              /\ body.categorias.k = "absent" => despues.categorias = antes.categorias

\* a patch of the price alone has succeeded on a record with two categories
C4_Witness ==
    /\ resp.op = "patch"
    /\ resp.status = 200
    /\ resp.campos = {"precio"}
    /\ Len(resp.item.categorias) = 2
    /\ DictGet(items, resp.id) = resp.item

\* C5: a successful replace or patch stores the record it returns under the
\* id of the request, the returned record has that id, and the live ids are
\* the same as before; a create adds at most its new id and removes none, a
\* delete removes at most its id and adds none, and no other request changes
\* the live ids.
C5_IdStable ==
    /\ \A id_ \in Ids, body \in Bodies :
          LET r == reemplazar_producto(repo, id_, body)
          IN  /\ Keys(r.repo.items) = Keys(items)
              /\ r.resp.status = 200 =>
                    /\ r.resp.item.id = id_
                    /\ obtener(r.repo, id_) = r.resp.item
    /\ \A id_ \in Ids, body \in Patches :
          LET r == actualizar_parcial_producto(repo, id_, body)
          IN  /\ Keys(r.repo.items) = Keys(items)
              /\ r.resp.status = 200 =>
                    /\ r.resp.item.id = id_
                    /\ obtener(r.repo, id_) = r.resp.item
    /\ \A body \in Bodies :
          LET r == crear_producto(repo, body, uuid4)
          IN  /\ Keys(items) \subseteq Keys(r.repo.items)
              /\ Keys(r.repo.items) \subseteq Keys(items) \cup {uuid4}
    /\ \A id_ \in Ids :
          LET r == eliminar_producto(repo, id_)
          IN  /\ Keys(r.repo.items) \subseteq Keys(items)
              /\ Keys(items) \subseteq Keys(r.repo.items) \cup {id_}
    /\ \A id_ \in Ids : Keys(obtener_producto(repo, id_).repo.items) = Keys(items)
    /\ \A y \in Queries :
          Keys(listar_productos(repo, y.q, y.categoria, y.min_precio, y.max_precio,
                                y.limit, y.offset).repo.items) = Keys(items)

\* a replace has just succeeded on the second of two live records
C5_Witness ==
    /\ resp.op = "replace"
    /\ resp.status = 200
    /\ Len(items) = 2
    /\ items[2] = resp.item
    /\ resp.item.id = resp.id

\* C9: every stored price is a multiple of 0.01, above 0 and at most 1,000,000.
C9_StoredPrice ==
    \A i \in 1..Len(items) :
        /\ items[i].precio % 10 = 0
        /\ items[i].precio > 0
        /\ items[i].precio >= 10
        /\ items[i].precio <= PrecioMax

\* one record at the least price and one at the greatest, after a price patch
C9_Witness ==
    /\ \E i \in 1..Len(items) : items[i].precio = 10
    /\ \E i \in 1..Len(items) : items[i].precio = PrecioMax
    /\ resp.op = "patch"
    /\ resp.status = 200
    /\ "precio" \in resp.campos

\* C10: the price validation rejects an input above 1,000,000 without
\* rounding it; any other input it rounds to the nearest multiple of 0.01,
\* ties away from zero, rejects when that is zero or less and otherwise
\* accepts with that value.
C10_ValidatePrice ==
    val.done =>
        IF val.raw > PrecioMax THEN ~val.out.ok
        ELSE IF RoundHalfAway(val.raw) <= 0 THEN ~val.out.ok
        ELSE val.out = Valid(RoundHalfAway(val.raw))

\* 2.005 has been validated and came out as 2.01
C10_Witness ==
    /\ val.done
    /\ val.raw = 2005
    /\ val.out = Valid(2010)

\* C6 as stated: on an id that is not live, every replace, patch, delete and
\* get answers 404 (NotFound), and an id that was deleted is never live again.
C6_NoRevival ==
    \A id_ \in Ids : (id_ <= uuid_count /\ id_ \notin Keys(items)) => id_ \notin Keys(items')

C6_NotFoundEveryBody ==
    \A id_ \in Ids \ Keys(items) :
        /\ obtener_producto(repo, id_).resp.status = 404
        /\ eliminar_producto(repo, id_).resp.status = 404
        /\ \A body \in Bodies : reemplazar_producto(repo, id_, body).resp.status = 404
        /\ \A body \in Patches : actualizar_parcial_producto(repo, id_, body).resp.status = 404

C6_Original == []C6_NotFoundEveryBody /\ [][C6_NoRevival]_vars

\* C6, amended: on an id that is not live, get and delete answer 404, a
\* replace whose body passes validation answers 404, and a patch whose body
\* passes validation and sets at least one field answers 404, all without
\* changing the repository; a replace or patch whose body fails validation
\* answers 422 and a patch with no field 400, whatever the id; and an id that
\* was deleted is never live again.
C6_NotFoundValidBody ==
    /\ \A id_ \in Ids \ Keys(items) :
          /\ obtener_producto(repo, id_) = Result(Reply("get", id_, 404, NoItem), repo)
          /\ eliminar_producto(repo, id_) = Result(Reply("delete", id_, 404, NoItem), repo)
          /\ \A body \in Bodies :
                ProductoCreate(body).ok =>
                    reemplazar_producto(repo, id_, body)
                        = Result(Reply("replace", id_, 404, NoItem), repo)
          /\ \A body \in Patches :
                LET r == actualizar_parcial_producto(repo, id_, body)
                IN  (ProductoUpdate(body).ok /\ campos_enviados(body) # {}) =>
                        (r.resp.status = 404 /\ r.resp.item = NoItem /\ r.repo = repo)
    /\ \A id_ \in Ids :
          /\ \A body \in Bodies :
                ~ProductoCreate(body).ok
                    => reemplazar_producto(repo, id_, body).resp.status = 422
          /\ \A body \in Patches :
                LET r == actualizar_parcial_producto(repo, id_, body)
                IN  /\ ~ProductoUpdate(body).ok => r.resp.status = 422
                    /\ (ProductoUpdate(body).ok /\ campos_enviados(body) = {})
                          => r.resp.status = 400

C6_NotFound == []C6_NotFoundValidBody /\ [][C6_NoRevival]_vars

\* a patch of an id that was handed out and then deleted has been answered
\* 404 while another record is live
C6_Witness ==
    /\ resp.op = "patch"
    /\ resp.status = 404
    /\ resp.id <= uuid_count
    /\ resp.id \notin Keys(items)
    /\ Len(items) >= 1

\* C7: for every list query within the declared ranges, total is the number
\* of records that pass all the filters supplied, whatever limit and offset
\* are; items is the part of the filtered sequence at positions offset
\* (inclusive) to offset + limit (exclusive), so it has at most limit records
\* and none when offset >= total.
C7_Pagination ==
    \A y \in QueriesList :
        LET r == listar_productos(repo, y.q, y.categoria, y.min_precio, y.max_precio,
                                  y.limit, y.offset).resp
            Test(p) == pasa(p, y.q, y.categoria, y.min_precio, y.max_precio)
            filtered == SelectSeq(items, Test)
        IN  r.status = 200 =>
              /\ r.total = Cardinality({i \in 1..Len(items) : Test(items[i])})
              /\ r.total = Len(filtered)
              /\ \A l \in LimitsList, o \in OffsetsList :
                    listar_productos(repo, y.q, y.categoria, y.min_precio, y.max_precio,
                                     l, o).resp.total = r.total
              /\ Len(r.page) <= y.limit
              /\ y.offset >= r.total => r.page = <<>>
              /\ y.offset + y.limit <= r.total => Len(r.page) = y.limit
              /\ (y.offset < r.total /\ y.offset + y.limit > r.total)
                    => Len(r.page) = r.total - y.offset
              /\ \A k \in 1..Len(r.page) : r.page[k] = filtered[y.offset + k]

\* a list over three records of which two pass the filters has returned the
\* second of the two, the third record of the store, as its page
C7_Witness ==
    /\ resp.op = "list"
    /\ resp.status = 200
    /\ Len(items) = 3
    /\ resp.total = 2
    /\ resp.page = <<items[3]>>

\* C8: a list query within the declared ranges that gives min_precio and
\* max_precio with min_precio > max_precio answers 400 (InvalidRange) without
\* calling RepoProductos.listar; every other list query does not answer 400,
\* and within the declared ranges it answers 200.
C8_InvalidRange ==
    \A y \in QueriesList :
        LET r == listar_productos(repo, y.q, y.categoria, y.min_precio, y.max_precio,
                                  y.limit, y.offset).resp
            ok == query_ok(y.q, y.categoria, y.min_precio, y.max_precio, y.limit, y.offset)
            inverted == /\ y.min_precio.k = "val"
                        /\ y.max_precio.k = "val"
                        /\ y.min_precio.v > y.max_precio.v
        IN  /\ (ok /\ inverted) => (r.status = 400 /\ ~r.listado /\ r.page = <<>>)
            /\ ~inverted => r.status # 400
            /\ (ok /\ ~inverted) => (r.status = 200 /\ r.listado)

\* a list has just been refused for its price range while records are live
C8_Witness ==
    /\ resp.op = "list"
    /\ resp.status = 400
    /\ ~resp.listado
    /\ Len(items) >= 2

\* the text between the first and the last character that is not whitespace
Recorta(s) ==
    LET negros == {i \in 1..Len(s) : s[i] \notin Whitespace}
    IN  IF negros = {} THEN <<>>
        ELSE SubSeq(s, CHOOSE i \in negros : \A j \in negros : i <= j,
                       CHOOSE i \in negros : \A j \in negros : i >= j)

\* every run of whitespace replaced by one space: the characters that are
\* not whitespace and the first character of every run, in their order
Colapsa(s) ==
    LET queda == {i \in 1..Len(s) :
                    s[i] \in Whitespace => (i = 1 \/ s[i - 1] \notin Whitespace)}
        pos == [i \in 1..Len(s) |-> Cardinality({j \in queda : j <= i})]
    IN  [k \in 1..Cardinality(queda) |->
            LET i == CHOOSE i \in queda : pos[i] = k
            IN  IF s[i] \in Whitespace THEN " " ELSE s[i]]

\* the trimmed, whitespace-collapsed form of a raw name
Normalizado(s) == Colapsa(Recorta(s))

\* C11: the name validation accepts a raw string if and only if its trimmed,
\* whitespace-collapsed form has 3 to 80 characters, starts with an
\* alphanumeric character and has only allowed characters, whatever the length
\* of the raw string is; and the accepted value is that form.
C11_ValidateName ==
    val.done =>
        LET n == Normalizado(val.raw)
            bien == /\ Len(n) >= 3
                    /\ Len(n) <= 80
                    /\ n[1] \in NameFirstClass
                    /\ \A i \in 1..Len(n) : n[i] \in NameRestClass
        IN  /\ val.out.ok <=> bien
            /\ val.out.ok => val.out.v = n

\* one entry of a category list after trim, whitespace-collapse, lower-casing
\* and accent-stripping
CategoriaNormal(c) == strip_accents(lower(Normalizado(c)))

\* the positions of a list at which a normalized value occurs for the first
\* time
Primeras(valores) ==
    {i \in 1..Len(valores) :
        \A j \in 1..(i - 1) : CategoriaNormal(valores[j]) # CategoriaNormal(valores[i])}

\* C12: the category validation rejects the empty list and a list of more
\* than 10 raw entries; it rejects a list with an entry whose normalized value
\* is not allowed; any other list it accepts and gives the normalized entries
\* without duplicates, each at the relative position of its first occurrence.
\* Every stored record has 1 to 10 categories, all allowed, pairwise distinct.
C12_ValidateCategories ==
    /\ val.done =>
          LET primeras == Primeras(val.raw)
              k_esima(k) == CHOOSE i \in primeras :
                                Cardinality({j \in primeras : j <= i}) = k
          IN  IF Len(val.raw) = 0 \/ Len(val.raw) > 10 THEN ~val.out.ok
              ELSE IF \E i \in 1..Len(val.raw) :
                         CategoriaNormal(val.raw[i]) \notin CATEGORIAS_PERMITIDAS
              THEN ~val.out.ok
              ELSE /\ val.out.ok
                   /\ val.out.v = [k \in 1..Cardinality(primeras) |->
                                      CategoriaNormal(val.raw[k_esima(k)])]
    /\ \A i \in 1..Len(items) :
          LET cs == items[i].categorias
          IN  /\ Len(cs) >= 1
              /\ Len(cs) <= 10
              /\ \A k \in 1..Len(cs) : cs[k] \in CATEGORIAS_PERMITIDAS
              /\ \A k, l \in 1..Len(cs) : k # l => cs[k] # cs[l]

\* ["Fruta", "FRUTA ", "verdura"] has been validated to ["fruta", "verdura"],
\* and the record holds that list after a patch
C12_Witness ==
    /\ val.done
    /\ val.raw = FrutaVerdura
    /\ val.out = Valid(<< <<"f","r","u","t","a">>, <<"v","e","r","d","u","r","a">> >>)
    /\ resp.op = "patch"
    /\ resp.status = 200
    /\ Len(items) = 1
    /\ items[1].categorias = val.out.v

\* a name without its accents and in lower case, as the search compares it
SinAcentos(n) == strip_accents(lower(n))

\* the live records other than id_ whose name differs from n by accents only:
\* equal without accents, different after lower-casing
SoloAcentos(self, id_, n) ==
    {i \in 1..Len(self.items) :
        /\ self.items[i].id # id_
        /\ SinAcentos(self.items[i].nombre) = SinAcentos(n)
        /\ lower(self.items[i].nombre) # lower(n)}

\* the live records other than id_ whose lower-cased name is that of n
MismoNombre(self, id_, n) ==
    {i \in 1..Len(self.items) :
        self.items[i].id # id_ /\ lower(self.items[i].nombre) = lower(n)}

\* C13: a live record whose name differs from a new name by accents only
\* does not make a create, a replace or a patch fail with DuplicateName: when
\* no other live record has the new name after lower-casing, the create is
\* accepted and the replace or patch of a live record is accepted; and a list
\* whose q is the unaccented spelling of a live record's name returns every
\* live record whose name has that unaccented spelling.
C13_AccentAsymmetry ==
    /\ \A body \in BodiesAcentos :
          LET n == ProductoCreate(body).nombre
          IN  (SoloAcentos(repo, NoId, n) # {} /\ MismoNombre(repo, NoId, n) = {})
                  => crear_producto(repo, body, uuid4).resp.status = 201
    /\ \A id_ \in Keys(items), body \in BodiesAcentos :
          LET n == ProductoCreate(body).nombre
          IN  (SoloAcentos(repo, id_, n) # {} /\ MismoNombre(repo, id_, n) = {})
                  => reemplazar_producto(repo, id_, body).resp.status = 200
    /\ \A id_ \in Keys(items), body \in PatchesAcentos :
          LET n == ProductoUpdate(body).nombre.v
          IN  (/\ body.nombre.k = "val"
               /\ SoloAcentos(repo, id_, n) # {}
               /\ MismoNombre(repo, id_, n) = {})
                  => actualizar_parcial_producto(repo, id_, body).resp.status = 200
    /\ \A i \in 1..Len(items) :
          LET r == listar_productos(repo, Val(strip_accents(items[i].nombre)), NoQ, NoP, NoP,
                                    100, 0).resp
          IN  /\ r.status = 200
              /\ \A j \in 1..Len(items) :
                    SinAcentos(items[j].nombre) = SinAcentos(items[i].nombre)
                        => \E k \in 1..Len(r.page) : r.page[k] = items[j]

\* "abc" and "a'bc" are both live, and a list with q = "abc" has returned
\* the two
C13_Witness ==
    /\ Len(items) = 2
    /\ items[1].nombre = abc
    /\ items[2].nombre = a_bc
    /\ resp.op = "list"
    /\ resp.status = 200
    /\ resp.page = items

\* the answer to a list with the filters of y and a page large enough to hold
\* every record
Listados(y) ==
    listar_productos(repo, y.q, y.categoria, y.min_precio, y.max_precio, LimitMax, 0).resp

\* C14 as stated: a record is kept if and only if the accent-stripped,
\* lower-cased q, when q is supplied, is a substring of its accent-stripped,
\* lower-cased name (also for a q made only of spaces), the normalized
\* categoria, when supplied, is one of its categories, and its price is within
\* the bounds supplied.
C14_Original ==
    \A y \in QueriesList :
        LET Keep(p) ==
                /\ y.q.k = "val" =>
                      IsSubstring(strip_accents(lower(y.q.v)), strip_accents(lower(p.nombre)))
                /\ y.categoria.k = "val" =>
                      \E i \in 1..Len(p.categorias) :
                          p.categorias[i] = CategoriaNormal(y.categoria.v)
                /\ y.min_precio.k = "val" => p.precio >= y.min_precio.v
                /\ y.max_precio.k = "val" => p.precio <= y.max_precio.v
        IN  Listados(y).status = 200 =>
              /\ Listados(y).page = SelectSeq(items, Keep)
              /\ Listados(y).total = Len(SelectSeq(items, Keep))

\* C14, amended: q is trimmed before it is matched, so that a q made only of
\* whitespace keeps every record, and an empty categoria counts as not
\* supplied.  A record is kept if and only if the trimmed, accent-stripped,
\* lower-cased q, when q is supplied, is a substring of its accent-stripped,
\* lower-cased name; the normalized categoria, when supplied and not empty, is
\* one of its categories; its price is >= min_precio when supplied and
\* <= max_precio when supplied.  A filter that is not supplied removes nothing.
C14_Filters ==
    \A y \in QueriesList :
        LET Keep(p) ==
                /\ y.q.k = "val" =>
                      IsSubstring(strip_accents(lower(Recorta(y.q.v))),
                                  strip_accents(lower(p.nombre)))
                /\ (y.categoria.k = "val" /\ y.categoria.v # <<>>) =>
                      \E i \in 1..Len(p.categorias) :
                          p.categorias[i] = CategoriaNormal(y.categoria.v)
                /\ y.min_precio.k = "val" => p.precio >= y.min_precio.v
                /\ y.max_precio.k = "val" => p.precio <= y.max_precio.v
            r == listar_productos(repo, y.q, y.categoria, y.min_precio, y.max_precio,
                                  y.limit, y.offset).resp
        IN  Listados(y).status = 200 =>
              /\ Listados(y).page = SelectSeq(items, Keep)
              /\ Listados(y).total = Len(SelectSeq(items, Keep))
              /\ r.status = 200 => r.total = Len(SelectSeq(items, Keep))
              /\ \A k \in 1..Len(r.page) : Keep(r.page[k])

\* a list over "Abc", "a'bc" and "xy z" has returned the first two and not
\* the third
C14_Witness ==
    /\ Len(items) = 3
    /\ items[1].nombre = Abc
    /\ items[2].nombre = a_bc
    /\ resp.op = "list"
    /\ resp.status = 200
    /\ resp.total = 2
    /\ resp.page = <<items[1], items[2]>>

\* the keys of the name index of a repository that point at id_
ClavesDe(self, id_) == {k \in DOMAIN self.name_to_id : self.name_to_id[k] = id_}

\* C15: a replace or patch of a live record, with a body that passes
\* validation, whose new name lower-cases to the record's own current name
\* (the same name or another casing of it) is accepted and leaves exactly one
\* index entry for the record, under the lower-cased new name; a replace or
\* patch whose new name lower-cases to the name of a different live record
\* answers 409 (DuplicateName).
C15_OwnName ==
    \A id_ \in Keys(items) :
        LET actual == obtener(repo, id_)
            Caso(n, r) ==
                /\ lower(n) = lower(actual.nombre) =>
                      /\ r.resp.status = 200
                      /\ ClavesDe(r.repo, id_) = {lower(n)}
                      /\ obtener(r.repo, id_).nombre = n
                /\ MismoNombre(repo, id_, n) # {} => r.resp.status = 409
        IN  /\ \A body \in BodiesAcentos :
                  ProductoCreate(body).ok =>
                      Caso(ProductoCreate(body).nombre, reemplazar_producto(repo, id_, body))
            /\ \A body \in PatchesAcentos :
                  (ProductoUpdate(body).ok /\ body.nombre.k = "val") =>
                      Caso(ProductoUpdate(body).nombre.v,
                           actualizar_parcial_producto(repo, id_, body))

\* a patch with the name "A'bc" has succeeded on the record that the index
\* holds under "a'bc", while another record is live
C15_Witness ==
    /\ Len(items) = 2
    /\ resp.op = "patch"
    /\ resp.status = 200
    /\ resp.item.nombre = A_bc
    /\ "nombre" \in resp.campos
    /\ obtener(repo, resp.id) = resp.item
    /\ ClavesDe(repo, resp.id) = {a_bc}

\* the name a request in flight asks for, once its body has passed validation
NombrePedido(s) ==
    IF s.op = "patch" THEN ProductoUpdate(s.body).nombre.v ELSE ProductoCreate(s.body).nombre

\* the record a request in flight is about: none for a create
IdPedido(s) == IF s.op = "create" THEN NoId ELSE s.id

\* C16, in every state: no two live records have names equal after
\* lower-casing, and the index holds each of them under its own id, whatever
\* requests are in flight.
C16_Unico ==
    /\ \A i, j \in 1..Len(items) :
          i # j => lower(items[i].nombre) # lower(items[j].nombre)
    /\ \A i \in 1..Len(items) :
          IndexGet(name_to_id, lower(items[i].nombre)) = items[i].id

\* C16, in every step in which the handler of a request with a valid body
\* ends: if another live record held the lower-cased name just before that
\* step, the request ends with 409 and writes nothing; and if the request
\* ends with a stored record, no other live record has that lower-cased name.
C16_Paso ==
    \A p \in Slots :
        (pend[p].pos # "respondido" /\ pend'[p].pos = "respondido") =>
            LET s == pend'[p]
                n == NombrePedido(s)
            IN  s.status # 422 =>
                  /\ (/\ MismoNombre(repo, IdPedido(s), n) # {}
                      /\ s.op # "create" => s.id \in Keys(items))
                        => (s.status = 409 /\ items' = items /\ name_to_id' = name_to_id)
                  /\ s.status \in {200, 201} =>
                        /\ obtener(repo', s.item.id) = s.item
                        /\ MismoNombre(repo', s.item.id, n) = {}

IdSeq(d) == [i \in 1..Len(d) |-> d[i].id]

\* C17: a list without filters gives all the live records in the order in
\* which their creates succeeded, which is the order of their ids (the n-th
\* successful create gets the id n); a successful replace or patch leaves
\* every record at its position, a successful delete removes one record and
\* keeps the order of the others, and a successful create puts its record
\* last.
C17_CreationOrder ==
    /\ LET r == listar_productos(repo, NoQ, NoQ, NoP, NoP, LimitMax, 0).resp
       IN  /\ r.status = 200
           /\ Len(r.page) = Len(items)
           /\ \A id_ \in Keys(items) : \E k \in 1..Len(r.page) : r.page[k] = obtener(repo, id_)
           /\ \A k, l \in 1..Len(r.page) : k < l => r.page[k].id < r.page[l].id
    /\ \A id_ \in IdsList, body \in BodiesList :
          LET r == reemplazar_producto(repo, id_, body)
          IN  r.resp.status = 200 => IdSeq(r.repo.items) = IdSeq(items)
    /\ \A id_ \in IdsList, body \in PatchesOrden :
          LET r == actualizar_parcial_producto(repo, id_, body)
          IN  r.resp.status = 200 => IdSeq(r.repo.items) = IdSeq(items)
    /\ \A id_ \in IdsList :
          LET r == eliminar_producto(repo, id_)
          IN  r.resp.status = 204 =>
                IdSeq(r.repo.items) = SelectSeq(IdSeq(items), LAMBDA x : x # id_)
    /\ \A body \in BodiesList :
          LET r == crear_producto(repo, body, uuid4)
          IN  r.resp.status = 201 => IdSeq(r.repo.items) = Append(IdSeq(items), r.resp.item.id)

\* the first of three live records has just been replaced and is still the
\* first
C17_Witness ==
    /\ Len(items) = 3
    /\ resp.op = "replace"
    /\ resp.status = 200
    /\ items[1] = resp.item
    /\ resp.id = items[1].id

\* a field of a patch that is present with a null or invalid value
CampoMalo(f, campo) == f.k = "null" \/ (f.k = "val" /\ ~campo.ok)

\* a patch in which some field is present with a null or invalid value
PatchMalo(body) ==
    \/ CampoMalo(body.nombre, campo_nombre(body.nombre))
    \/ CampoMalo(body.precio, campo_precio(body.precio))
    \/ CampoMalo(body.categorias, campo_categorias(body.categorias))

\* C18: a patch in which a field is present with a null, empty or otherwise
\* invalid value ends with 422 (ValidationError) on a live record, with 422 or
\* 404 (NotFound) on an id that is not live, never with any other status, and
\* leaves the repository unchanged.
C18_PresentInvalid ==
    \A id_ \in Ids, body \in Patches :
        LET r == actualizar_parcial_producto(repo, id_, body)
        IN  PatchMalo(body) =>
              /\ r.repo = repo
              /\ r.resp.status \in {404, 422}
              /\ id_ \in Keys(items) => r.resp.status = 422

\* the map from the lower-cased name of every live record to its id
IndiceEsperado(self) ==
    [k \in FoldedNames(self) |->
        (CHOOSE i \in 1..Len(self.items) : lower(self.items[i].nombre) = k)]

\* C19: in every state reached by create, replace, patch and delete
\* requests, the keys of the name index are the lower-cased names of the
\* live records, and each key points at the id of a live record with that
\* lower-cased name; so the guard of delete holds for every live record,
\* delete leaves no entry behind, and a valid create with a name that no
\* live record has after lower-casing is not refused.
C19_IndexConsistency ==
    /\ DOMAIN name_to_id = FoldedNames(repo)
    /\ \A k \in DOMAIN name_to_id :
          name_to_id[k] = items[IndiceEsperado(repo)[k]].id
    /\ \A i \in 1..Len(items) :
          /\ lower(items[i].nombre) \in DOMAIN name_to_id
          /\ name_to_id[lower(items[i].nombre)] = items[i].id
    /\ \A id_ \in Keys(items) :
          LET r == eliminar_producto(repo, id_)
          IN  /\ IndexGet(name_to_id, norm_name(obtener(repo, id_).nombre)) = id_
              /\ DOMAIN r.repo.name_to_id = FoldedNames(r.repo)
    /\ \A body \in BodiesAcentos :
          lower(ProductoCreate(body).nombre) \notin FoldedNames(repo)
              => crear_producto(repo, body, uuid4).resp.status # 409

\* a replace has succeeded on the second of two live records, "A'bc" and
\* "abc", and the index has one key for each of the two
C19_Witness ==
    /\ Len(items) = 2
    /\ resp.op = "replace"
    /\ resp.status = 200
    /\ resp.item.nombre = abc
    /\ items[2] = resp.item
    /\ items[1].nombre = A_bc
    /\ name_to_id = (abc :> items[2].id) @@ (a_bc :> items[1].id)

\* the statuses of the requests that succeed
Exitos == {200, 201, 204}

\* C20: a create, replace, patch or delete that does not succeed (404
\* NotFound, 409 DuplicateName, 422 ValidationError, or any other status but
\* 200, 201 and 204) leaves the store and the name index exactly as they
\* were, and so does every get and every list; a replace or patch either
\* changes nothing or stores the record it returns and holds it in the index
\* under its lower-cased name.
C20_FailedNoChange ==
    /\ \A body \in BodiesFallos :
          LET r == crear_producto(repo, body, uuid4)
          IN  /\ r.resp.status \in {201, 409, 422}
              /\ r.resp.status \notin Exitos => r.repo = repo
    /\ \A id_ \in Ids, body \in BodiesFallos :
          LET r == reemplazar_producto(repo, id_, body)
          IN  /\ r.resp.status \notin Exitos => r.repo = repo
              /\ r.repo # repo =>
                    /\ obtener(r.repo, id_) = r.resp.item
                    /\ IndexGet(r.repo.name_to_id, lower(r.resp.item.nombre)) = id_
    /\ \A id_ \in Ids, body \in PatchesFallos :
          LET r == actualizar_parcial_producto(repo, id_, body)
          IN  /\ r.resp.status \notin Exitos => r.repo = repo
              /\ r.repo # repo =>
                    /\ obtener(r.repo, id_) = r.resp.item
                    /\ IndexGet(r.repo.name_to_id, lower(r.resp.item.nombre)) = id_
    /\ \A id_ \in Ids :
          /\ eliminar_producto(repo, id_).resp.status \notin Exitos
                => eliminar_producto(repo, id_).repo = repo
          /\ obtener_producto(repo, id_).repo = repo
    /\ \A y \in Queries :
          listar_productos(repo, y.q, y.categoria, y.min_precio, y.max_precio,
                           y.limit, y.offset).repo = repo

\* a replace of one of two live records with the name of the other has been
\* answered 409, and the index still holds both names
C20_Witness ==
    /\ Len(items) = 2
    /\ resp.op = "replace"
    /\ resp.status = 409
    /\ Cardinality(DOMAIN name_to_id) = 2
    /\ \A i \in 1..2 : IndexGet(name_to_id, lower(items[i].nombre)) = items[i].id

====
